---- MODULE Spec2Model ----
(***************************************************************************)
(* Hotel housekeeping admin UI: the scheduling calendar (CalendarView.vue) *)
(* and the task manager (HousekeepingTaskManager.vue), each talking to the *)
(* REST task store.  One of the two components is mounted in a behaviour   *)
(* (view); its refs are the variables below.  Every handler runs to its    *)
(* first await; the rest of an async function runs when the response of    *)
(* the request it awaits is delivered.                                     *)
(***************************************************************************)
EXTENDS Integers, Sequences, FiniteSets, TLC

VARIABLES
    view,             \* which component is mounted: "calendar" | "manager"
    phase,            \* component lifecycle: "setup" | "mounting" | "mounted"
    now,              \* the clock read by new Date()
    store,            \* the store's housekeeping_tasks rows, in id order
    net,              \* requests in flight, in the order they were issued
    issued,           \* history: the requests issued by onMounted or by the
                      \* latest mutating action, each with its outcome
    rooms, tasks, loading, error,                 \* refs of both components
    startDate, daysToShow, containerWidth,        \* calendar: date range
    draggedTask, draggedFromDate, pendingMove,    \* calendar: drag and drop
    dragSession,      \* the browser has a drag gesture in progress
    statusFilter,     \* filter select of both components
    nextId,           \* the store's AUTO_INCREMENT counter
    users, editingTask, formData,                 \* manager: refs
    dateFilter, userFilter,                       \* manager: filters
    submitted,        \* history: mutating actions and filter changes so far
    faults            \* history: requests the store or the transport has failed

\* the variables only the task manager and its requests write
tmVars == <<nextId, users, editingTask, formData, dateFilter, userFilter, submitted>>

vars == <<view, phase, now, store, net, issued, rooms, tasks, loading, error,
          startDate, daysToShow, containerWidth, draggedTask, draggedFromDate,
          pendingMove, dragSession, statusFilter, tmVars, faults>>

----------------------------------------------------------------------------
(* Bounds of the model *)

\* navigation is explored up to this many days away from the initial start
MaxNavDays == 7

\* the manager's user starts at most this many mutating actions and filter
\* changes
MaxMutations == 1

\* the store or the transport fails at most this many requests that the
\* store's own rules would have answered otherwise
MaxFaults == 1

\* a filter change or a mutating action of the manager is started only
\* while fewer requests than this are in flight
MaxInFlight == 2

\* the task lists the grid is computed from hold this many tasks
MaxTasks == 3

\* the room lists the grid is computed from hold at most this many rooms
MaxRooms == 3

\* the container is measured at widths that fit 0 .. MaxFitDays date columns
MaxFitDays == 31

\* the user of the manager's Start and Complete buttons starts this many
\* actions more than MaxMutations
MoreLifecycleActions == 3

\* '' as a task date (an empty date input)
EmptyDate == 0

(* Program constants *)
ROOM_COLUMN_WIDTH == 120
DATE_COLUMN_WIDTH == 100
MinDays == 3
MaxDays == 30
InitialDaysToShow == 7

----------------------------------------------------------------------------
(* Values *)

\* a ref holding null is the empty sequence, a ref holding v is <<v>>
Null == <<>>
Some(v) == <<v>>
Val(o) == o[1]

\* data.tasks / data.rooms of a JSON body that has no such field
Undefined == <<[undefined |-> TRUE]>>

\* the zone of the browser: hours east of UTC in standard time (std) and
\* from the hour fromHour of the local day fromDay on (dst)
Utc == [std |-> 0, dst |-> 0, fromDay |-> 0, fromHour |-> 0]

\* the values new Date() may return during setup: a Date is the local
\* calendar day and hour of an instant, with the zone it is read in
InitialClock == {[day |-> 20, tod |-> 9, zone |-> Utc]}

\* container.clientWidth values the layout may report
Widths == {100, 420}

\* the offsets of the four navigation buttons
NavOffsets == {-30, -7, 7, 30}

\* the options of the status filter select the user picks from
StatusChoices == {"all", "pending"}

\* the error text of a rejection by the store's own rules
StoreRuleText == "rejected by store"

\* error texts another rejection may carry: "" is a body without error field
StoreErrorTexts == {""}

Min(a, b) == IF a < b THEN a ELSE b
Max(a, b) == IF a > b THEN a ELSE b

RemoveAt(s, i) == [k \in 1..(Len(s) - 1) |-> IF k < i THEN s[k] ELSE s[k + 1]]


----------------------------------------------------------------------------
(* The store (external collaborator) *)

StoreRooms ==
    << [id |-> "R1", roomNumber |-> <<"1", "0">>],
       [id |-> "R2", roomNumber |-> <<"2">>] >>

InitialStore(today) ==
    << [id |-> 1, roomId |-> "R1", assignedUserId |-> "U1", taskDate |-> today - 1,
        taskType |-> "cleaning", priority |-> "medium", status |-> "pending", notes |-> ""],
       [id |-> 2, roomId |-> "R1", assignedUserId |-> "U1", taskDate |-> today,
        taskType |-> "cleaning", priority |-> "high", status |-> "in_progress", notes |-> ""] >>

\* the row of s with fields of body written over it
Patch(row, body) ==
    [f \in DOMAIN row |-> IF f \in DOMAIN body THEN body[f] ELSE row[f]]

\* UNIQUE KEY unique_room_date_type (room_id, task_date, task_type)
UniqueRoomDateType(s) ==
    \A i, j \in 1..Len(s) :
        (i # j) => ~(/\ s[i].roomId = s[j].roomId
                     /\ s[i].taskDate = s[j].taskDate
                     /\ s[i].taskType = s[j].taskType)

HasId(s, id) == \E i \in 1..Len(s) : s[i].id = id

StorePut(s, id, body) ==
    [i \in 1..Len(s) |-> IF s[i].id = id THEN Patch(s[i], body) ELSE s[i]]

\* the store accepts PUT /housekeeping-tasks/:id only for a row that exists and
\* only when the patched table keeps the unique key
PutAccepted(s, id, body) == HasId(s, id) /\ UniqueRoomDateType(StorePut(s, id, body))

StoreUsers ==
    << [id |-> "U1", role |-> "staff", status |-> "active"],
       [id |-> "U2", role |-> "manager", status |-> "active"] >>

\* POST /housekeeping-tasks: the row gets the next AUTO_INCREMENT id
StorePost(s, id, body) ==
    Append(s, [f \in DOMAIN body \cup {"id"} |-> IF f = "id" THEN id ELSE body[f]])

PostAccepted(s, id, body) == UniqueRoomDateType(StorePost(s, id, body))

StoreDelete(s, id) == SelectSeq(s, LAMBDA row : row.id # id)

\* GET /housekeeping-tasks?date=&status=&userId=
NoQuery == [date |-> EmptyDate, status |-> "all", userId |-> "all"]

StoreList(s, q) ==
    SelectSeq(s, LAMBDA row : /\ q.date \in {EmptyDate, row.taskDate}
                              /\ q.status \in {"all", row.status}
                              /\ q.userId \in {"all", row.assignedUserId})

Response(kind, ts, rs, err) == [kind |-> kind, tasks |-> ts, rooms |-> rs, error |-> err]

Request(op, method, path, id, body) ==
    [op |-> op, method |-> method, path |-> path, id |-> id, query |-> NoQuery,
     body |-> body, resp |-> Null]

NoBody == [f \in {} |-> 0]

\* what was sent, as kept in issued; result becomes the kind of the response
\* once the response is delivered
Sent(m) == [op |-> m.op, method |-> m.method, path |-> m.path, id |-> m.id,
            query |-> m.query, body |-> m.body, result |-> "pending"]

Resolve(log, k, resp) == [log EXCEPT ![k].result = resp.kind]

\* the outcomes the store and the transport can produce for request m:
\* triples of the response, the store afterwards, and whether the outcome is
\* a fault (anything but the answer the store's rules give).  "throw" is
\* fetch() rejecting; the store may or may not have applied the request by
\* then.  The error text of a failed GET is read by no caller.
Outcomes(m, s, newId) ==
    LET texts == IF m.method = "GET" THEN {""} ELSE StoreErrorTexts
        faulty(after) == {<<Response("rejected", <<>>, <<>>, e), s, TRUE>> : e \in texts}
                         \cup {<<Response("throw", <<>>, <<>>, ""), st, TRUE>> : st \in {s, after}}
        ruled(ok, after) ==
            IF ok THEN {<<Response("ok", <<>>, <<>>, ""), after, FALSE>>} \cup faulty(after)
            ELSE {<<Response("rejected", <<>>, <<>>, StoreRuleText), s, FALSE>>} \cup faulty(s)
    IN CASE m.method = "GET" /\ m.path = "rooms" ->
              {<<Response("ok", <<>>, StoreRooms, ""), s, FALSE>>} \cup faulty(s)
         [] m.method = "GET" /\ m.path = "users" ->
              {<<Response("ok", <<>>, StoreUsers, ""), s, FALSE>>} \cup faulty(s)
         [] m.method = "GET" /\ m.path = "housekeeping-tasks" ->
              {<<Response("ok", StoreList(s, m.query), <<>>, ""), s, FALSE>>} \cup faulty(s)
         [] m.method = "PUT" ->
              ruled(PutAccepted(s, m.id, m.body), StorePut(s, m.id, m.body))
         [] m.method = "POST" ->
              ruled(PostAccepted(s, newId, m.body), StorePost(s, newId, m.body))
         [] OTHER ->
              ruled(HasId(s, m.id), StoreDelete(s, m.id))

----------------------------------------------------------------------------
(* CalendarView.vue: pure helpers *)

\* hours east of UTC of the zone at the instant of a Date
UtcOffset(date) ==
    IF \/ date.day > date.zone.fromDay
       \/ date.day = date.zone.fromDay /\ date.tod >= date.zone.fromHour
    THEN date.zone.dst
    ELSE date.zone.std

\* date.toISOString().split('T')[0]: the calendar day of the instant in UTC
formatDateISO(date) == (date.day * 24 + date.tod - UtcOffset(date)) \div 24

\* date.getDate(), date.toLocaleDateString(): the calendar day in the zone
getDate(date) == date.day

\* date.setDate(date.getDate() + n): the same local hour, n local days on
AddDays(date, n) == [date EXCEPT !.day = @ + n]

\* mutant: the loop counts from 1, so the list starts a day late
dates_fromNextDay == [i \in 1..daysToShow |-> AddDays(startDate, i)]

dates == [i \in 1..daysToShow |-> AddDays(startDate, i - 1)]

DigitChars == <<"0", "1", "2", "3", "4", "5", "6", "7", "8", "9">>
IsDigit(c) == \E d \in 1..10 : DigitChars[d] = c
DigitVal(c) == (CHOOSE d \in 1..10 : DigitChars[d] = c) - 1

RECURSIVE ParseDigits(_, _, _)
ParseDigits(s, i, acc) ==
    IF i > Len(s) \/ ~IsDigit(s[i]) THEN acc
    ELSE ParseDigits(s, i + 1, acc * 10 + DigitVal(s[i]))

\* the number of blanks a label starts with
LeadingBlanks(s) ==
    CHOOSE n \in 0..Len(s) : /\ \A i \in 1..n : s[i] = " "
                             /\ n = Len(s) \/ s[n + 1] # " "

\* mutant: a label that is not a number as a whole counts as 0
ParseIntOrZero_wholeLabel(s) ==
    IF Len(s) = 0 \/ \E i \in 1..Len(s) : ~IsDigit(s[i]) THEN 0 ELSE ParseDigits(s, 1, 0)

\* parseInt(label) || 0: blanks and a sign may precede the digits, what
\* follows the digits is ignored, and no digits at all is NaN, hence 0
\* (labels are decimal: a 0x prefix is not among the labels drawn)
ParseIntOrZero(s) ==
    LET n == LeadingBlanks(s)
        signed == n < Len(s) /\ s[n + 1] \in {"-", "+"}
        first == IF signed THEN n + 2 ELSE n + 1
        magnitude == IF first > Len(s) \/ ~IsDigit(s[first]) THEN 0
                     ELSE ParseDigits(s, first, 0)
    IN IF signed /\ s[n + 1] = "-" THEN -magnitude ELSE magnitude

RECURSIVE InsertSorted(_, _)
InsertSorted(sorted, r) ==
    IF sorted = <<>> THEN <<r>>
    ELSE IF ParseIntOrZero(sorted[Len(sorted)].roomNumber) <= ParseIntOrZero(r.roomNumber)
         THEN Append(sorted, r)
         ELSE Append(InsertSorted(SubSeq(sorted, 1, Len(sorted) - 1), r), sorted[Len(sorted)])

RECURSIVE SortRooms(_)
SortRooms(rs) ==
    IF rs = <<>> THEN <<>>
    ELSE InsertSorted(SortRooms(SubSeq(rs, 1, Len(rs) - 1)), rs[Len(rs)])

FilteredRoomsOf(rs) == SortRooms(rs)

filteredRooms == FilteredRoomsOf(rooms)

getTasksForRoomAndDate(roomId, date) ==
    LET dateStr == formatDateISO(date)
        roomTasks == SelectSeq(tasks, LAMBDA t : t.roomId = roomId /\ t.taskDate = dateStr)
    IN IF statusFilter # "all"
       THEN SelectSeq(roomTasks, LAMBDA t : t.status = statusFilter)
       ELSE roomTasks

FloorDiv(a, b) == a \div b

\* mutant: no Math.max, a width with room for fewer than 3 columns gives fewer
calculateDaysToShow_noFloor(width) ==
    Min(MaxDays, FloorDiv(width - ROOM_COLUMN_WIDTH, DATE_COLUMN_WIDTH))

\* mutant: a width with room for more than 30 columns falls back to 3
calculateDaysToShow_resetAboveMax(width) ==
    IF FloorDiv(width - ROOM_COLUMN_WIDTH, DATE_COLUMN_WIDTH) > MaxDays THEN MinDays
    ELSE Max(MinDays, FloorDiv(width - ROOM_COLUMN_WIDTH, DATE_COLUMN_WIDTH))

\* mutant: no Math.min, a wide container gives more than 30 columns
calculateDaysToShow_noCeiling(width) ==
    Max(MinDays, FloorDiv(width - ROOM_COLUMN_WIDTH, DATE_COLUMN_WIDTH))

calculateDaysToShow(width) ==
    LET availableWidth == width - ROOM_COLUMN_WIDTH
        maxDays == FloorDiv(availableWidth, DATE_COLUMN_WIDTH)
    IN Max(MinDays, Min(MaxDays, maxDays))

----------------------------------------------------------------------------
(* CalendarView.vue: what the template renders *)

\* the render function throws on rooms or tasks that are undefined, and the
\* DOM keeps the loading view rendered before the response arrived
\* <div v-if="!loading && filteredRooms.length > 0" class="calendar-container">
ContainerRendered(isLoading, rs, ts) ==
    /\ ~isLoading
    /\ rs # Undefined /\ ts # Undefined
    /\ Len(FilteredRoomsOf(rs)) > 0

GridRendered == view = "calendar" /\ ContainerRendered(loading, rooms, tasks)

Cells == {<<r, c>> : r \in 1..Len(filteredRooms), c \in 1..daysToShow}

CellRoom(cell) == filteredRooms[cell[1]].id
CellDate(cell) == dates[cell[2]]

\* v-for="task in getTasksForRoomAndDate(room.id, date)" class="task-block"
TaskBlocks(cell) == getTasksForRoomAndDate(CellRoom(cell), CellDate(cell))

\* mutant: the preview is shown in every room row of the target date
PendingPreviewAt_anyRow(cell) ==
    /\ pendingMove # Null
    /\ Val(pendingMove).toDate = formatDateISO(CellDate(cell))

\* v-if of the pending-move preview block and of the confirm-move controls
PendingPreviewAt(cell) ==
    /\ pendingMove # Null
    /\ Val(pendingMove).toDate = formatDateISO(CellDate(cell))
    /\ Val(pendingMove).task.roomId = CellRoom(cell)

ConfirmControlsAt(cell) == PendingPreviewAt(cell)

ConfirmControlsRendered == GridRendered /\ \E cell \in Cells : ConfirmControlsAt(cell)

----------------------------------------------------------------------------
(* Initial state: the refs as <script setup> leaves them *)

Yesterday(clock) == AddDays(clock, -1)

\* const formData = ref<TaskForm>({...}), also what resetForm assigns
EmptyForm(clock) ==
    [roomId |-> "", assignedUserId |-> "", taskDate |-> formatDateISO(clock), taskType |-> "cleaning",
     priority |-> "medium", status |-> "pending", notes |-> ""]

\* submitted counts the user's actions against MaxMutations: a specification
\* that lets the user start more of them begins that many below 0
InitRefsAllowing(more) ==
    /\ phase = "setup"
    /\ now \in InitialClock
    /\ store = InitialStore(now.day)
    /\ net = <<>>
    /\ issued = <<>>
    /\ rooms = <<>>
    /\ tasks = <<>>
    /\ loading = FALSE
    /\ error = ""
    /\ startDate = Yesterday(now)
    /\ daysToShow = InitialDaysToShow
    /\ containerWidth = 0
    /\ draggedTask = Null
    /\ draggedFromDate = Null
    /\ pendingMove = Null
    /\ dragSession = FALSE
    /\ statusFilter = "all"
    /\ nextId = Len(store) + 1
    /\ users = <<>>
    /\ editingTask = Null
    /\ formData = EmptyForm(now)
    /\ dateFilter = EmptyDate
    /\ userFilter = "all"
    /\ submitted = -more
    /\ faults = 0

InitRefs == InitRefsAllowing(0)

InitCalendar == view = "calendar" /\ InitRefs

InitManager == view = "manager" /\ InitRefs

Init == view \in {"calendar", "manager"} /\ InitRefs

----------------------------------------------------------------------------
(* The store answers a request in flight *)

StoreHandle(i) ==
    /\ net[i].resp = Null
    /\ \E out \in Outcomes(net[i], store, nextId) :
          /\ out[3] => faults < MaxFaults
          /\ net' = [net EXCEPT ![i].resp = Some(out[1])]
          /\ store' = out[2]
          /\ faults' = IF out[3] THEN faults + 1 ELSE faults
          /\ nextId' = IF Len(out[2]) > Len(store) THEN nextId + 1 ELSE nextId
    /\ UNCHANGED <<view, phase, now, issued, rooms, tasks, loading, error, startDate,
                   daysToShow, containerWidth, draggedTask, draggedFromDate,
                   pendingMove, dragSession, statusFilter>>
    /\ UNCHANGED <<users, editingTask, formData, dateFilter, userFilter, submitted>>

Answered(i, op, method, path) ==
    /\ net[i].resp # Null
    /\ net[i].op = op /\ net[i].method = method /\ net[i].path = path

----------------------------------------------------------------------------
(* CalendarView.vue: handlers *)

\* fetchRooms / fetchTasks after their awaits: the refs they leave
RoomsAfterFetch(resp) ==
    CASE resp.kind = "ok" -> resp.rooms
      [] resp.kind = "rejected" -> Undefined
      [] OTHER -> rooms

\* mutant: a fetched list is merged into the list held, not put in its place
TasksAfterFetch_merged(resp) ==
    CASE resp.kind = "ok" -> tasks \o resp.tasks
      [] resp.kind = "rejected" -> Undefined
      [] OTHER -> tasks

TasksAfterFetch(resp) ==
    CASE resp.kind = "ok" -> resp.tasks
      [] resp.kind = "rejected" -> Undefined
      [] OTHER -> tasks

ErrorAfterFetch(resp, text) == IF resp.kind = "throw" THEN text ELSE error

\* updateContainerWidth: acts only when .calendar-container is in the DOM
updateContainerWidth(hasContainer, clientWidths) ==
    IF hasContainer
    THEN \E width \in clientWidths :
            /\ containerWidth' = width
            /\ daysToShow' = calculateDaysToShow(width)
    ELSE UNCHANGED <<containerWidth, daysToShow>>

CalOnMounted ==
    /\ view = "calendar" /\ phase = "setup"
    /\ phase' = "mounting"
    /\ loading' = TRUE
    /\ LET r == Request("onMounted", "GET", "rooms", 0, NoBody)
           t == Request("onMounted", "GET", "housekeeping-tasks", 0, NoBody)
       IN /\ net' = net \o <<r, t>>
          /\ issued' = <<Sent(r), Sent(t)>>
    /\ UNCHANGED <<view, now, store, rooms, tasks, error, startDate, daysToShow,
                   containerWidth, draggedTask, draggedFromDate, pendingMove,
                   dragSession, statusFilter>>
    /\ UNCHANGED <<tmVars, faults>>

\* one of the two fetches of onMounted returns; when it is the last one,
\* Promise.all resolves, loading clears and the first layout is measured
CalMountFetchMeasured(i, clientWidths) ==
    /\ view = "calendar" /\ phase = "mounting"
    /\ net[i].resp # Null /\ net[i].op = "onMounted"
    /\ LET resp == Val(net[i].resp)
           isRooms == net[i].path = "rooms"
           rest == RemoveAt(net, i)
           last == \A k \in 1..Len(rest) : rest[k].op # "onMounted"
       IN /\ net' = rest
          /\ rooms' = IF isRooms THEN RoomsAfterFetch(resp) ELSE rooms
          /\ tasks' = IF isRooms THEN tasks ELSE TasksAfterFetch(resp)
          /\ error' = ErrorAfterFetch(resp, IF isRooms THEN "Failed to fetch rooms"
                                                        ELSE "Failed to fetch tasks")
          /\ IF last
             THEN /\ loading' = FALSE
                  /\ phase' = "mounted"
                  /\ updateContainerWidth(ContainerRendered(FALSE, rooms', tasks'), clientWidths)
             ELSE UNCHANGED <<loading, phase, containerWidth, daysToShow>>
          /\ issued' = Resolve(issued, IF isRooms THEN 1 ELSE 2, resp)
    /\ UNCHANGED <<view, now, store, startDate, draggedTask, draggedFromDate,
                   pendingMove, dragSession, statusFilter>>
    /\ UNCHANGED <<tmVars, faults>>

CalMountFetchDone(i) == CalMountFetchMeasured(i, Widths)

\* window resize listener, installed at the end of onMounted
ResizeWithin(clientWidths) ==
    /\ view = "calendar" /\ phase = "mounted"
    /\ GridRendered
    /\ updateContainerWidth(TRUE, clientWidths)
    /\ UNCHANGED <<view, phase, now, store, net, issued, rooms, tasks, loading, error,
                   startDate, draggedTask, draggedFromDate, pendingMove, dragSession,
                   statusFilter>>
    /\ UNCHANGED <<tmVars, faults>>

Resize == ResizeWithin(Widths)

navigateDays(offset) ==
    /\ view = "calendar" /\ ~dragSession
    /\ LET newDate == AddDays(startDate, offset)
       IN /\ newDate.day - Yesterday(now).day <= MaxNavDays
          /\ Yesterday(now).day - newDate.day <= MaxNavDays
          /\ startDate' = newDate
    /\ UNCHANGED <<view, phase, now, store, net, issued, rooms, tasks, loading, error,
                   daysToShow, containerWidth, draggedTask, draggedFromDate,
                   pendingMove, dragSession, statusFilter>>
    /\ UNCHANGED <<tmVars, faults>>

goToToday ==
    /\ view = "calendar" /\ ~dragSession
    /\ startDate' = Yesterday(now)
    /\ UNCHANGED <<view, phase, now, store, net, issued, rooms, tasks, loading, error,
                   daysToShow, containerWidth, draggedTask, draggedFromDate,
                   pendingMove, dragSession, statusFilter>>
    /\ UNCHANGED <<tmVars, faults>>

\* <select v-model="statusFilter"> of the calendar: no handler, no request
CalSetStatusFilter(s) ==
    /\ view = "calendar" /\ ~dragSession
    /\ statusFilter' = s
    /\ UNCHANGED <<view, phase, now, store, net, issued, rooms, tasks, loading, error,
                   startDate, daysToShow, containerWidth, draggedTask, draggedFromDate,
                   pendingMove, dragSession>>
    /\ UNCHANGED <<tmVars, faults>>

\* mutant: the origin recorded is the first column of the grid
DragOrigin_firstColumn(cell) == formatDateISO(startDate)

\* draggedFromDate.value = formatDateISO(date), date being that of the cell
DragOrigin(cell) == formatDateISO(CellDate(cell))

\* @dragstart of the k-th task block of a cell
handleDragStart(cell, k) ==
    /\ GridRendered /\ ~dragSession
    /\ k \in 1..Len(TaskBlocks(cell))
    /\ draggedTask' = Some(TaskBlocks(cell)[k])
    /\ draggedFromDate' = Some(DragOrigin(cell))
    /\ dragSession' = TRUE
    /\ UNCHANGED <<view, phase, now, store, net, issued, rooms, tasks, loading, error,
                   startDate, daysToShow, containerWidth, pendingMove, statusFilter>>
    /\ UNCHANGED <<tmVars, faults>>

\* the gesture ends outside every date cell: no handler runs
DragEnd ==
    /\ dragSession
    /\ dragSession' = FALSE
    /\ UNCHANGED <<view, phase, now, store, net, issued, rooms, tasks, loading, error,
                   startDate, daysToShow, containerWidth, draggedTask, draggedFromDate,
                   pendingMove, statusFilter>>
    /\ UNCHANGED <<tmVars, faults>>

\* mutant: the same-date check is lost
IsSameDate_never(newDate, fromDate) == FALSE

\* if (newDate === draggedFromDate.value)
IsSameDate(newDate, fromDate) == newDate = fromDate

\* mutant: the dates are swapped
StagedMove_swapped(task, fromDate, newDate) ==
    [task |-> task, fromDate |-> newDate, toDate |-> fromDate]

\* the pending move handleDrop stages
StagedMove(task, fromDate, newDate) ==
    [task |-> task, fromDate |-> fromDate, toDate |-> newDate]

\* mutant: a drop on the origin date keeps the origin date recorded
OriginAfterDrop_keptOnSameDate(sameDate) == IF sameDate THEN draggedFromDate ELSE Null

\* draggedFromDate.value = null, in both branches of handleDrop
OriginAfterDrop(sameDate) == Null

\* @drop of a date cell
handleDrop(cell) ==
    /\ GridRendered /\ dragSession
    /\ dragSession' = FALSE
    /\ LET newDate == formatDateISO(CellDate(cell))
       IN IF draggedTask = Null \/ draggedFromDate = Null
          THEN UNCHANGED <<draggedTask, draggedFromDate, pendingMove>>
          ELSE IF IsSameDate(newDate, Val(draggedFromDate))
          THEN /\ draggedTask' = Null
               /\ draggedFromDate' = OriginAfterDrop(TRUE)
               /\ UNCHANGED pendingMove
          ELSE /\ pendingMove' = Some(StagedMove(Val(draggedTask), Val(draggedFromDate), newDate))
               /\ draggedTask' = Null
               /\ draggedFromDate' = OriginAfterDrop(FALSE)
    /\ UNCHANGED <<view, phase, now, store, net, issued, rooms, tasks, loading, error,
                   startDate, daysToShow, containerWidth, statusFilter>>
    /\ UNCHANGED <<tmVars, faults>>

\* mutant: the whole task is sent with the new date
ConfirmBody_wholeTask(move) == [move.task EXCEPT !.taskDate = move.toDate]

\* body: JSON.stringify({ taskDate: pendingMove.value.toDate })
ConfirmBody(move) == [taskDate |-> move.toDate]

\* click on Confirm
confirmMove ==
    /\ ConfirmControlsRendered /\ ~dragSession
    /\ pendingMove # Null
    /\ loading' = TRUE
    /\ error' = ""
    /\ LET put == Request("confirmMove", "PUT", "housekeeping-tasks",
                          Val(pendingMove).task.id, ConfirmBody(Val(pendingMove)))
       IN /\ net' = Append(net, put)
          /\ issued' = <<Sent(put)>>
    /\ UNCHANGED <<view, phase, now, store, rooms, tasks, startDate, daysToShow,
                   containerWidth, draggedTask, draggedFromDate, pendingMove,
                   dragSession, statusFilter>>
    /\ UNCHANGED <<tmVars, faults>>

\* mutant: no fallback text
RejectionText_noFallback(resp, fallback) == resp.error

\* error.value = data.error || 'Failed to move task'
RejectionText(resp, fallback) == IF resp.error # "" THEN resp.error ELSE fallback

\* mutant: finally runs without fetchTasks having been awaited
BusyAfterMutation_notAwaited(resp) == FALSE

\* loading once the request of a mutating action has returned: on response.ok
\* the handler is suspended in "await fetchTasks()" inside its try block, so
\* finally has not run; otherwise finally has cleared it
BusyAfterMutation(resp) == resp.kind = "ok"

\* mutant: a failed request is sent once more
FollowUps_retried(req, resp, get) ==
    IF resp.kind = "ok" THEN <<get>> ELSE <<req>>

\* the requests a mutating action issues once its request req has returned:
\* on response.ok the one fetchTasks it awaits, otherwise none
FollowUps(req, resp, get) ==
    IF resp.kind = "ok" THEN <<get>> ELSE <<>>

\* a mutating action's request has returned: it leaves the requests in
\* flight, its outcome is known and its follow-ups are issued
AfterMutation(i, resp, get) ==
    LET more == FollowUps([net[i] EXCEPT !.resp = Null], resp, get)
    IN /\ net' = RemoveAt(net, i) \o more
       /\ issued' = Resolve(issued, 1, resp) \o [k \in 1..Len(more) |-> Sent(more[k])]

\* mutant: a failed confirm keeps the staged move
PendingAfterConfirm_keptOnFailure(resp) ==
    IF resp.kind = "ok" THEN Null ELSE pendingMove

\* pendingMove once the PUT of confirmMove has returned: null in the ok
\* branch, in the else branch and in catch
PendingAfterConfirm(resp) == Null

CalConfirmPutDone(i) ==
    /\ view = "calendar"
    /\ Answered(i, "confirmMove", "PUT", "housekeeping-tasks")
    /\ LET resp == Val(net[i].resp)
           get == Request("confirmMove", "GET", "housekeeping-tasks", 0, NoBody)
       IN /\ pendingMove' = PendingAfterConfirm(resp)
          /\ AfterMutation(i, resp, get)
          /\ CASE resp.kind = "ok" -> UNCHANGED error
               [] resp.kind = "rejected" ->
                    error' = RejectionText(resp, "Failed to move task")
               [] OTHER -> error' = "Failed to move task"
          /\ loading' = BusyAfterMutation(resp)
    /\ UNCHANGED <<view, phase, now, store, rooms, tasks, startDate, daysToShow,
                   containerWidth, draggedTask, draggedFromDate, dragSession, statusFilter>>
    /\ UNCHANGED <<tmVars, faults>>

\* the fetchTasks awaited by confirmMove returns, then finally clears loading
CalConfirmRefreshDone(i) ==
    /\ view = "calendar"
    /\ Answered(i, "confirmMove", "GET", "housekeeping-tasks")
    /\ LET resp == Val(net[i].resp)
       IN /\ tasks' = TasksAfterFetch(resp)
          /\ error' = ErrorAfterFetch(resp, "Failed to fetch tasks")
          /\ issued' = Resolve(issued, 2, resp)
    /\ loading' = FALSE
    /\ net' = RemoveAt(net, i)
    /\ UNCHANGED <<view, phase, now, store, rooms, startDate, daysToShow,
                   containerWidth, draggedTask, draggedFromDate, pendingMove,
                   dragSession, statusFilter>>
    /\ UNCHANGED <<tmVars, faults>>

\* mutant: cancelling also dismisses the error message
cancelMove_clearsError ==
    /\ ConfirmControlsRendered /\ ~dragSession
    /\ pendingMove' = Null
    /\ error' = ""
    /\ UNCHANGED <<view, phase, now, store, net, issued, rooms, tasks, loading,
                   startDate, daysToShow, containerWidth, draggedTask, draggedFromDate,
                   dragSession, statusFilter>>
    /\ UNCHANGED <<tmVars, faults>>

\* click on Cancel
cancelMove ==
    /\ ConfirmControlsRendered /\ ~dragSession
    /\ pendingMove' = Null
    /\ UNCHANGED <<view, phase, now, store, net, issued, rooms, tasks, loading, error,
                   startDate, daysToShow, containerWidth, draggedTask, draggedFromDate,
                   dragSession, statusFilter>>
    /\ UNCHANGED <<tmVars, faults>>

----------------------------------------------------------------------------

NextCalendar ==
    \/ \E i \in 1..Len(net) : StoreHandle(i)
    \/ CalOnMounted
    \/ \E i \in 1..Len(net) : CalMountFetchDone(i)
    \/ Resize
    \/ \E offset \in NavOffsets : navigateDays(offset)
    \/ goToToday
    \/ \E s \in StatusChoices : CalSetStatusFilter(s)
    \/ \E cell \in Cells, k \in 1..2 : handleDragStart(cell, k)
    \/ DragEnd
    \/ \E cell \in Cells : handleDrop(cell)
    \/ confirmMove
    \/ \E i \in 1..Len(net) : CalConfirmPutDone(i)
    \/ \E i \in 1..Len(net) : CalConfirmRefreshDone(i)
    \/ cancelMove

SpecCalendar == InitCalendar /\ [][NextCalendar]_vars

----------------------------------------------------------------------------
(* HousekeepingTaskManager.vue *)

\* the variables only the calendar writes
calVars == <<startDate, daysToShow, containerWidth, draggedTask, draggedFromDate,
             pendingMove, dragSession>>

\* the actions whose requests are wrapped in loading = true ... finally false
MutatingOps == {"addTask", "updateTask", "deleteTask", "startTask", "completeTask"}

\* what the user may type into the form: fields written by v-model
FormEdits == { [roomId |-> "R2", assignedUserId |-> "U1"] }

\* the choices of the date and staff filters
DateChoices == {EmptyDate, now.day}

staffUsers == SelectSeq(users, LAMBDA u : u.role = "staff" /\ u.status = "active")

\* the options of the staff filter, as last rendered
UserChoices ==
    IF users = Undefined THEN {"all"}
    ELSE {"all"} \cup {staffUsers[k].id : k \in 1..Len(staffUsers)}

\* the filter settings explored: at most one filter is set at a time
FilterSettings ==
    {q \in [date : DateChoices, status : StatusChoices, userId : {"all", "U1"}] :
        Cardinality({f \in DOMAIN q : q[f] # NoQuery[f]}) <= 1}

\* the query string fetchTasks builds from the three filters
TmQuery == [date |-> dateFilter, status |-> statusFilter, userId |-> userFilter]

TmTasksRequest(op) ==
    [Request(op, "GET", "housekeeping-tasks", 0, NoBody) EXCEPT !.query = TmQuery]

\* the render function throws on tasks.length and on users.filter of undefined
TmRendered == view = "manager" /\ tasks # Undefined /\ users # Undefined

\* mutant: the controls are not bound to loading
TmControlsEnabled_ignoresBusy == TmRendered

\* form controls and row buttons carry :disabled="loading"
TmControlsEnabled == TmRendered /\ ~loading

TmRows == IF TmRendered THEN 1..Len(tasks) ELSE {}

\* a mutating action is started within the bounds of the model
WithinBounds == submitted < MaxMutations /\ Len(net) < MaxInFlight

TmOnMounted ==
    /\ view = "manager" /\ phase = "setup"
    /\ phase' = "mounted"
    /\ LET t == TmTasksRequest("onMounted")
           r == Request("onMounted", "GET", "rooms", 0, NoBody)
           u == Request("onMounted", "GET", "users", 0, NoBody)
       IN /\ net' = net \o <<t, r, u>>
          /\ issued' = <<Sent(t), Sent(r), Sent(u)>>
    /\ UNCHANGED <<view, now, store, rooms, tasks, loading, error, statusFilter>>
    /\ UNCHANGED calVars
    /\ UNCHANGED <<tmVars, faults>>

UsersAfterFetch(resp) ==
    CASE resp.kind = "ok" -> resp.rooms
      [] resp.kind = "rejected" -> Undefined
      [] OTHER -> users

\* a fetchTasks / fetchRooms / fetchUsers that no mutating action awaits
\* returns: one started by onMounted or by a filter's @change
TmFetchDone(i) ==
    /\ view = "manager"
    /\ net[i].resp # Null /\ net[i].op \in {"onMounted", "fetchTasks"}
    /\ LET resp == Val(net[i].resp)
           path == net[i].path
           k == CHOOSE n \in 1..3 : <<"housekeeping-tasks", "rooms", "users">>[n] = path
       IN /\ tasks' = IF path = "housekeeping-tasks" THEN TasksAfterFetch(resp) ELSE tasks
          /\ rooms' = IF path = "rooms" THEN RoomsAfterFetch(resp) ELSE rooms
          /\ users' = IF path = "users" THEN UsersAfterFetch(resp) ELSE users
          /\ error' = ErrorAfterFetch(resp,
                         CASE path = "rooms" -> "Failed to fetch rooms"
                           [] path = "users" -> "Failed to fetch users"
                           [] OTHER -> "Failed to fetch tasks")
          /\ issued' = IF /\ net[i].op = "onMounted"
                          /\ Len(issued) = 3 /\ issued[k].op = "onMounted"
                       THEN Resolve(issued, k, resp)
                       ELSE issued
    /\ net' = RemoveAt(net, i)
    /\ UNCHANGED <<view, phase, now, store, loading, statusFilter>>
    /\ UNCHANGED <<calVars, faults>>
    /\ UNCHANGED <<nextId, editingTask, formData, dateFilter, userFilter, submitted>>

\* @change="fetchTasks" of a filter, after v-model has written the filter;
\* the event fires only when the value chosen is another than before
TmFilterFetch ==
    /\ [date |-> dateFilter', status |-> statusFilter', userId |-> userFilter']
          \in FilterSettings
    /\ net' = Append(net, [TmTasksRequest("fetchTasks") EXCEPT
                              !.query = [date |-> dateFilter', status |-> statusFilter',
                                         userId |-> userFilter']])
    /\ UNCHANGED <<view, phase, now, store, issued, rooms, tasks, loading, error>>
    /\ UNCHANGED <<calVars, faults>>
    /\ submitted' = submitted + 1
    /\ UNCHANGED <<nextId, users, editingTask, formData>>

TmSetDateFilter(d) ==
    /\ view = "manager" /\ phase = "mounted" /\ WithinBounds
    /\ d # dateFilter
    /\ dateFilter' = d
    /\ UNCHANGED <<statusFilter, userFilter>>
    /\ TmFilterFetch

TmSetStatusFilter(st) ==
    /\ view = "manager" /\ phase = "mounted" /\ WithinBounds
    /\ st # statusFilter
    /\ statusFilter' = st
    /\ UNCHANGED <<dateFilter, userFilter>>
    /\ TmFilterFetch

TmSetUserFilter(u) ==
    /\ view = "manager" /\ phase = "mounted" /\ WithinBounds
    /\ users # Undefined
    /\ u \in UserChoices
    /\ u # userFilter
    /\ userFilter' = u
    /\ UNCHANGED <<dateFilter, statusFilter>>
    /\ TmFilterFetch

\* v-model of the form's inputs
TypeInForm(edit) ==
    /\ view = "manager" /\ phase = "mounted" /\ TmControlsEnabled
    /\ formData' = Patch(formData, edit)
    /\ formData' # formData
    /\ UNCHANGED <<view, phase, now, store, net, issued, rooms, tasks, loading, error,
                   statusFilter>>
    /\ UNCHANGED <<calVars, faults>>
    /\ UNCHANGED <<nextId, users, editingTask, dateFilter, userFilter, submitted>>

\* loading.value = true; error.value = ''; await fetch(...)
TmSubmit(req) ==
    /\ WithinBounds
    /\ loading' = TRUE
    /\ error' = ""
    /\ net' = Append(net, req)
    /\ issued' = <<Sent(req)>>
    /\ submitted' = submitted + 1
    /\ UNCHANGED <<view, phase, now, store, rooms, tasks, statusFilter>>
    /\ UNCHANGED <<calVars, faults>>
    /\ UNCHANGED <<nextId, users, editingTask, formData, dateFilter, userFilter>>

\* mutant: the date is not validated
FormIncomplete_dateUnchecked(form) ==
    form.roomId = "" \/ form.assignedUserId = ""

FormIncomplete(form) ==
    form.roomId = "" \/ form.assignedUserId = "" \/ form.taskDate = EmptyDate

\* submit of the form while no task is being edited
addTask ==
    /\ view = "manager" /\ phase = "mounted" /\ TmControlsEnabled
    /\ editingTask = Null
    /\ IF FormIncomplete(formData)
       THEN /\ error' = "Room, assigned user, and task date are required"
            /\ UNCHANGED <<view, phase, now, store, net, issued, rooms, tasks, loading,
                           statusFilter>>
            /\ UNCHANGED <<calVars, faults>>
            /\ UNCHANGED <<tmVars, faults>>
       ELSE TmSubmit(Request("addTask", "POST", "housekeeping-tasks", 0, formData))

\* click on Edit in the row of tasks[k]
startEdit(k) ==
    /\ view = "manager" /\ TmControlsEnabled /\ k \in TmRows
    /\ editingTask' = Some(tasks[k])
    /\ formData' = [f \in DOMAIN formData |-> tasks[k][f]]
    /\ UNCHANGED <<view, phase, now, store, net, issued, rooms, tasks, loading, error,
                   statusFilter>>
    /\ UNCHANGED <<calVars, faults>>
    /\ UNCHANGED <<nextId, users, dateFilter, userFilter, submitted>>

\* click on Cancel of the form, rendered while a task is being edited
resetForm ==
    /\ view = "manager" /\ TmControlsEnabled
    /\ editingTask # Null
    /\ formData' = EmptyForm(now)
    /\ editingTask' = Null
    /\ error' = ""
    /\ UNCHANGED <<view, phase, now, store, net, issued, rooms, tasks, loading,
                   statusFilter>>
    /\ UNCHANGED <<calVars, faults>>
    /\ UNCHANGED <<nextId, users, dateFilter, userFilter, submitted>>

\* submit of the form while a task is being edited
updateTask ==
    /\ view = "manager" /\ TmControlsEnabled
    /\ editingTask # Null
    /\ TmSubmit(Request("updateTask", "PUT", "housekeeping-tasks",
                        Val(editingTask).id, formData))

\* click on Delete in the row of tasks[k], confirmed in the dialog
deleteTask(k) ==
    /\ view = "manager" /\ TmControlsEnabled /\ k \in TmRows
    /\ TmSubmit(Request("deleteTask", "DELETE", "housekeeping-tasks", tasks[k].id, NoBody))

\* mutant: the client stamps the transition itself
StatusBody_withTimestamp(st) == [status |-> st, startedAt |-> now.day, completedAt |-> now.day]

\* body: JSON.stringify({ status: ... }) of startTask and completeTask
StatusBody(st) == [status |-> st]

\* mutant: Start is offered in every row
StartOffered_always(task) == TRUE

\* v-if of the Start button of a row
StartOffered(task) == task.status = "pending"

\* v-if of the Complete button of a row
CompleteOffered(task) == task.status = "in_progress"

\* click on Start, rendered in the rows of pending tasks
startTask(k) ==
    /\ view = "manager" /\ TmControlsEnabled /\ k \in TmRows
    /\ StartOffered(tasks[k])
    /\ TmSubmit(Request("startTask", "PUT", "housekeeping-tasks", tasks[k].id,
                        StatusBody("in_progress")))

\* click on Complete, rendered in the rows of tasks in progress
completeTask(k) ==
    /\ view = "manager" /\ TmControlsEnabled /\ k \in TmRows
    /\ CompleteOffered(tasks[k])
    /\ TmSubmit(Request("completeTask", "PUT", "housekeeping-tasks", tasks[k].id,
                        StatusBody("completed")))

FailureText(op) ==
    CASE op = "addTask" -> "Failed to add task"
      [] op = "updateTask" -> "Failed to update task"
      [] op = "deleteTask" -> "Failed to delete task"
      [] op = "startTask" -> "Failed to start task"
      [] OTHER -> "Failed to complete task"

\* mutant: the form is reset whenever the request of add or update returns
FormAfterMutation_alwaysReset(op, resp) ==
    IF op \in {"addTask", "updateTask"} THEN EmptyForm(now) ELSE formData

\* resetForm() is called in the response.ok branch of addTask and updateTask
FormAfterMutation(op, resp) ==
    IF resp.kind = "ok" /\ op \in {"addTask", "updateTask"} THEN EmptyForm(now) ELSE formData

\* the POST, PUT or DELETE of a mutating action returns: on response.ok the
\* form is reset (add, update) and fetchTasks is awaited; otherwise the error
\* is set and finally clears loading
TmMutationDone(i) ==
    /\ view = "manager"
    /\ net[i].resp # Null /\ net[i].op \in MutatingOps /\ net[i].method # "GET"
    /\ LET resp == Val(net[i].resp)
           op == net[i].op
           get == TmTasksRequest(op)
       IN /\ AfterMutation(i, resp, get)
          /\ formData' = FormAfterMutation(op, resp)
          /\ CASE resp.kind = "ok" ->
                    IF op \in {"addTask", "updateTask"}
                    THEN /\ editingTask' = Null
                         /\ error' = ""
                    ELSE UNCHANGED <<editingTask, error>>
               [] resp.kind = "rejected" ->
                    /\ error' = RejectionText(resp, FailureText(op))
                    /\ UNCHANGED editingTask
               [] OTHER ->
                    /\ error' = FailureText(op)
                    /\ UNCHANGED editingTask
    /\ loading' = BusyAfterMutation(Val(net[i].resp))
    /\ UNCHANGED <<view, phase, now, store, rooms, tasks, statusFilter>>
    /\ UNCHANGED <<calVars, faults>>
    /\ UNCHANGED <<nextId, users, dateFilter, userFilter, submitted>>

\* the fetchTasks awaited by a mutating action returns, then finally clears
\* loading
TmRefreshDone(i) ==
    /\ view = "manager"
    /\ net[i].resp # Null /\ net[i].op \in MutatingOps /\ net[i].method = "GET"
    /\ LET resp == Val(net[i].resp)
       IN /\ tasks' = TasksAfterFetch(resp)
          /\ error' = ErrorAfterFetch(resp, "Failed to fetch tasks")
          /\ issued' = Resolve(issued, 2, resp)
    /\ loading' = FALSE
    /\ net' = RemoveAt(net, i)
    /\ UNCHANGED <<view, phase, now, store, rooms, statusFilter>>
    /\ UNCHANGED calVars
    /\ UNCHANGED <<tmVars, faults>>

NextManager ==
    \/ \E i \in 1..Len(net) : StoreHandle(i)
    \/ TmOnMounted
    \/ \E i \in 1..Len(net) : TmFetchDone(i)
    \/ \E d \in DateChoices : TmSetDateFilter(d)
    \/ \E st \in StatusChoices : TmSetStatusFilter(st)
    \/ \E u \in UserChoices : TmSetUserFilter(u)
    \/ \E edit \in FormEdits : TypeInForm(edit)
    \/ addTask
    \/ \E k \in TmRows : startEdit(k)
    \/ resetForm
    \/ updateTask
    \/ \E k \in TmRows : deleteTask(k)
    \/ \E k \in TmRows : startTask(k)
    \/ \E k \in TmRows : completeTask(k)
    \/ \E i \in 1..Len(net) : TmMutationDone(i)
    \/ \E i \in 1..Len(net) : TmRefreshDone(i)

SpecManager == InitManager /\ [][NextManager]_vars

\* what the user may type into the form before submitting a new task: each
\* of the three required fields filled or emptied on its own
AddTaskEdits == { [roomId |-> "R2"], [roomId |-> ""],
                  [assignedUserId |-> "U1"], [assignedUserId |-> ""],
                  [taskDate |-> EmptyDate], [taskDate |-> now.day] }

\* the manager used only to fill the form and add tasks
NextAddTask ==
    \/ \E i \in 1..Len(net) : StoreHandle(i)
    \/ TmOnMounted
    \/ \E i \in 1..Len(net) : TmFetchDone(i)
    \/ \E edit \in AddTaskEdits : TypeInForm(edit)
    \/ addTask
    \/ \E i \in 1..Len(net) : TmMutationDone(i)
    \/ \E i \in 1..Len(net) : TmRefreshDone(i)

SpecAddTask == InitManager /\ [][NextAddTask]_vars

----------------------------------------------------------------------------
(* CalendarView.vue: the grid computed from what onMounted fetched *)

\* the calendar once onMounted has fetched the rooms rs and the tasks ts
\* under the clock given and has measured the container at width
Mounted(clock, ts, rs, width) ==
    /\ view = "calendar" /\ phase = "mounted"
    /\ now = clock
    /\ store = ts
    /\ net = <<>>
    /\ issued = LET r == Request("onMounted", "GET", "rooms", 0, NoBody)
                    t == Request("onMounted", "GET", "housekeeping-tasks", 0, NoBody)
                IN << [Sent(r) EXCEPT !.result = "ok"], [Sent(t) EXCEPT !.result = "ok"] >>
    /\ rooms = rs
    /\ tasks = ts
    /\ loading = FALSE
    /\ error = ""
    /\ startDate = Yesterday(clock)
    /\ IF ContainerRendered(FALSE, rs, ts)
       THEN containerWidth = width /\ daysToShow = calculateDaysToShow(width)
       ELSE containerWidth = 0 /\ daysToShow = InitialDaysToShow
    /\ draggedTask = Null
    /\ draggedFromDate = Null
    /\ pendingMove = Null
    /\ dragSession = FALSE
    /\ statusFilter = "all"
    /\ nextId = Len(store) + 1
    /\ users = <<>>
    /\ editingTask = Null
    /\ formData = EmptyForm(clock)
    /\ dateFilter = EmptyDate
    /\ userFilter = "all"
    /\ submitted = 0
    /\ faults = 0

\* zones the browser may run in: ten hours east of UTC, five hours west of
\* it, and one that moves from UTC to UTC+1 at 01:00 of day 20
East == [std |-> 10, dst |-> 10, fromDay |-> 0, fromHour |-> 0]
West == [std |-> -5, dst |-> -5, fromDay |-> 0, fromHour |-> 0]
Summer == [std |-> 0, dst |-> 1, fromDay |-> 20, fromHour |-> 1]

\* the values new Date() may return during setup, over these zones
ZonedClocks ==
    { [day |-> 20, tod |-> 9, zone |-> Utc],
      [day |-> 20, tod |-> 9, zone |-> East],
      [day |-> 20, tod |-> 23, zone |-> West],
      [day |-> 20, tod |-> 0, zone |-> Summer] }

\* task_type ENUM
TaskTypes == <<"cleaning", "maintenance", "inspection", "turndown">>

GridTask(k, roomId, taskDate, status) ==
    [id |-> k, roomId |-> roomId, assignedUserId |-> "U1", taskDate |-> taskDate,
     taskType |-> TaskTypes[((k - 1) % Len(TaskTypes)) + 1], priority |-> "medium",
     status |-> status, notes |-> ""]

\* the task lists the store may return: MaxTasks tasks of two rooms, dated
\* yesterday or today, pending or completed, in any order of these
GridStores(today) ==
    { ts \in [1..MaxTasks -> { GridTask(k, r, d, st) : k \in 1..MaxTasks, r \in {"R1", "R2"},
                                                        d \in {today - 1, today},
                                                        st \in {"pending", "completed"} }] :
        /\ \A k \in 1..MaxTasks : ts[k].id = k
        /\ UniqueRoomDateType(ts) }

InitGrid ==
    \E clock \in ZonedClocks : \E ts \in GridStores(clock.day) :
        Mounted(clock, ts, StoreRooms, 420)

\* the handlers that change what the grid shows without a request
NextGrid ==
    \/ Resize
    \/ \E offset \in NavOffsets : navigateDays(offset)
    \/ goToToday
    \/ \E s \in StatusChoices : CalSetStatusFilter(s)

SpecGrid == InitGrid /\ [][NextGrid]_vars

\* container.clientWidth values with room for 0 .. MaxFitDays date columns
FitWidths ==
    { ROOM_COLUMN_WIDTH + d * DATE_COLUMN_WIDTH + DATE_COLUMN_WIDTH \div 2 : d \in 0..MaxFitDays }

InitDates ==
    \E clock \in ZonedClocks : \E width \in FitWidths :
        Mounted(clock, InitialStore(clock.day), StoreRooms, width)

NextDates ==
    \/ ResizeWithin(FitWidths)
    \/ \E offset \in NavOffsets : navigateDays(offset)
    \/ goToToday
    \/ \E s \in StatusChoices : CalSetStatusFilter(s)

SpecDates == InitDates /\ [][NextDates]_vars

\* room-number labels the store may hold
RoomLabels ==
    { <<"1", "0">>, <<"2">>, <<"9", "A">>, <<"A", "9">>, <<"2", "B">>, <<"-", "1">> }

RoomIds == <<"R1", "R2", "R3", "R4">>

\* the room lists the store may return: up to MaxRooms rooms in any order
\* of their labels
RoomLists ==
    UNION { { [k \in 1..n |-> [id |-> RoomIds[k], roomNumber |-> labels[k]]] :
                labels \in [1..n -> RoomLabels] } : n \in 0..MaxRooms }

InitRooms ==
    \E clock \in InitialClock : \E rs \in RoomLists :
        Mounted(clock, InitialStore(clock.day), rs, 420)

SpecRooms == InitRooms /\ [][NextGrid]_vars

\* container.clientWidth values around every multiple of the date column
\* width, from widths below 0 to widths with room for more than MaxFitDays
\* columns, and 0
LayoutWidths ==
    {0} \cup { ROOM_COLUMN_WIDTH + k * DATE_COLUMN_WIDTH + e :
                 k \in -3..(MaxFitDays + 1), e \in {-1, 0, 1} }

\* mounting, resizing and navigating the calendar over these widths
NextLayout ==
    \/ \E i \in 1..Len(net) : StoreHandle(i)
    \/ CalOnMounted
    \/ \E i \in 1..Len(net) : \E width \in LayoutWidths : CalMountFetchMeasured(i, {width})
    \/ \E width \in LayoutWidths : ResizeWithin({width})
    \/ \E offset \in NavOffsets : navigateDays(offset)
    \/ goToToday

SpecLayout == InitCalendar /\ [][NextLayout]_vars

\* what the user may type into the form to ask for a task the unique key
\* forbids: the room and the date of a task the store holds
RetryEdits == { [roomId |-> "R1", assignedUserId |-> "U1"], [taskDate |-> now.day] }

\* the manager used only through its form
NextForm ==
    \/ \E i \in 1..Len(net) : StoreHandle(i)
    \/ TmOnMounted
    \/ \E i \in 1..Len(net) : TmFetchDone(i)
    \/ \E edit \in RetryEdits : TypeInForm(edit)
    \/ addTask
    \/ \E k \in TmRows : startEdit(k)
    \/ resetForm
    \/ updateTask
    \/ \E i \in 1..Len(net) : TmMutationDone(i)
    \/ \E i \in 1..Len(net) : TmRefreshDone(i)

SpecForm == InitManager /\ [][NextForm]_vars

\* the manager used only through the staff filter and the Start and
\* Complete buttons
InitLifecycle == view = "manager" /\ InitRefsAllowing(MoreLifecycleActions)

NextLifecycle ==
    \/ \E i \in 1..Len(net) : StoreHandle(i)
    \/ TmOnMounted
    \/ \E i \in 1..Len(net) : TmFetchDone(i)
    \/ \E u \in UserChoices : TmSetUserFilter(u)
    \/ \E k \in TmRows : startTask(k)
    \/ \E k \in TmRows : completeTask(k)
    \/ \E i \in 1..Len(net) : TmMutationDone(i)
    \/ \E i \in 1..Len(net) : TmRefreshDone(i)

SpecLifecycle == InitLifecycle /\ [][NextLifecycle]_vars

Next == NextCalendar \/ NextManager

Spec == Init /\ [][Next]_vars


----------------------------------------------------------------------------
(* Properties *)

IsTasksPut(m) == m.method = "PUT" /\ m.path = "housekeeping-tasks"
IsTasksGet(m) == m.method = "GET" /\ m.path = "housekeeping-tasks"

\* the latest mutating action is a confirmMove
LatestIsConfirm == view = "calendar" /\ issued # <<>> /\ issued[1].op = "confirmMove"

HasBlock(cell, id) == \E k \in 1..Len(TaskBlocks(cell)) : TaskBlocks(cell)[k].id = id

\* C1: a confirm issues exactly one PUT, to /housekeeping-tasks/<id of the
\* staged task>, whose body holds taskDate = toDate and nothing else; the
\* requests of one confirm never hold a second PUT.
C1_ConfirmIssuesOnePut ==
    view = "calendar" =>
      /\ \A i \in 1..Len(net) :
            net[i].method = "PUT" =>
              /\ net[i].op = "confirmMove" /\ net[i].path = "housekeeping-tasks"
              /\ pendingMove # Null
              /\ net[i].id = Val(pendingMove).task.id
              /\ DOMAIN net[i].body = {"taskDate"}
              /\ net[i].body.taskDate = Val(pendingMove).toDate
      /\ LatestIsConfirm =>
            /\ IsTasksPut(issued[1])
            /\ DOMAIN issued[1].body = {"taskDate"}
            /\ \A k \in 2..Len(issued) : issued[k].method = "GET"
      /\ (phase = "mounted" /\ loading) => LatestIsConfirm

\* a confirm's PUT has reached the store and was answered
C1_Witness ==
    \E i \in 1..Len(net) : net[i].op = "confirmMove" /\ net[i].method = "PUT"
                           /\ net[i].resp # Null

\* the part of C2 about the grid, once the refresh has ended with one of kinds
C2_GridAfterRefresh(kinds) ==
    (LatestIsConfirm /\ issued[1].result = "ok") =>
      /\ Len(issued) = 2 /\ IsTasksGet(issued[2])
      /\ (issued[2].result = "pending") <=> loading
      /\ loading => pendingMove = Null
      /\ issued[2].result \in kinds =>
            /\ tasks # Undefined
            /\ \E k \in 1..Len(tasks) : tasks[k].id = issued[1].id
            /\ \A k \in 1..Len(tasks) :
                  tasks[k].id = issued[1].id => tasks[k].taskDate = issued[1].body.taskDate
            /\ GridRendered =>
                  \A cell \in Cells :
                     /\ HasBlock(cell, issued[1].id) =>
                           formatDateISO(CellDate(cell)) = issued[1].body.taskDate
                     /\ \A k \in 1..Len(tasks) :
                           ( /\ tasks[k].id = issued[1].id
                             /\ CellRoom(cell) = tasks[k].roomId
                             /\ formatDateISO(CellDate(cell)) = issued[1].body.taskDate
                             /\ statusFilter \in {"all", tasks[k].status} )
                           => HasBlock(cell, issued[1].id)

C3_FailedConfirm ==
    [][\A i \in 1..Len(net) :
          (CalConfirmPutDone(i) /\ Val(net[i].resp).kind # "ok") =>
             /\ pendingMove' = Null
             /\ error' # ""
             /\ tasks' = tasks
             /\ \E k \in 1..Len(tasks') :
                   /\ tasks'[k].id = Val(pendingMove).task.id
                   /\ tasks'[k].taskDate = Val(pendingMove).fromDate
             /\ loading' = FALSE
             /\ ~(\E k \in 1..Len(net') : net'[k].op = "confirmMove")]_vars

\* a confirm has failed on a store rejection that carried no error text
C3_Witness ==
    /\ LatestIsConfirm /\ Len(issued) = 1 /\ issued[1].result = "rejected"
    /\ error = "Failed to move task"
    /\ pendingMove = Null /\ ~loading

\* C4: a drop on another date than the drag's origin stages exactly the
\* PendingMove (dragged task, origin date, drop date), the origin date being
\* the date of the cell the block was rendered in, clears the drag-origin
\* record, and issues no request.
C4_DropStagesMove ==
    [][\A cell \in Cells :
          ( /\ handleDrop(cell)
            /\ draggedTask # Null /\ draggedFromDate # Null
            /\ formatDateISO(CellDate(cell)) # Val(draggedFromDate) ) =>
             /\ pendingMove' = Some([task |-> Val(draggedTask),
                                     fromDate |-> Val(draggedTask).taskDate,
                                     toDate |-> formatDateISO(CellDate(cell))])
             /\ Val(draggedFromDate) = Val(draggedTask).taskDate
             /\ draggedTask' = Null /\ draggedFromDate' = Null
             /\ net' = net /\ issued' = issued]_vars

\* a move is staged and the drag-origin record is clear
C4_Witness ==
    /\ pendingMove # Null /\ Val(pendingMove).toDate # Val(pendingMove).fromDate
    /\ draggedTask = Null /\ draggedFromDate = Null /\ ~dragSession
    /\ net = <<>>

\* C5: a drop on the date the drag started from stages nothing (pendingMove
\* keeps its value), resets the drag-origin record and issues no request.
C5_DropOnOriginIsNoOp ==
    [][\A cell \in Cells :
          ( /\ handleDrop(cell)
            /\ draggedTask # Null /\ draggedFromDate # Null
            /\ formatDateISO(CellDate(cell)) = Val(draggedFromDate) ) =>
             /\ pendingMove' = pendingMove
             /\ draggedTask' = Null /\ draggedFromDate' = Null
             /\ net' = net /\ issued' = issued
             /\ tasks' = tasks /\ store' = store]_vars

\* a task is being dragged over the grid that still shows its origin date,
\* while a move staged earlier is outstanding: the drop on the origin is next
C5_Witness ==
    /\ GridRendered /\ dragSession /\ draggedTask # Null /\ pendingMove # Null
    /\ ENABLED (\E cell \in Cells :
                   /\ formatDateISO(CellDate(cell)) = Val(draggedFromDate)
                   /\ handleDrop(cell))

\* C6: cancelMove discards the staged move, issues no request and leaves the
\* task list, the error message and loading as they were.
C6_CancelFrame ==
    [][cancelMove =>
          /\ pendingMove # Null /\ pendingMove' = Null
          /\ net' = net /\ issued' = issued /\ store' = store
          /\ tasks' = tasks /\ error' = error /\ loading' = loading]_vars

\* a staged move can be cancelled while an error message is displayed
C6_Witness ==
    /\ pendingMove # Null /\ error # "" /\ ENABLED cancelMove

\* C7 (as stated): while a PendingMove is outstanding no drag begins, and the
\* PendingMove only ever goes away, by confirm or cancel; it is never
\* replaced by another one.
C7_AsStated ==
    [][pendingMove # Null =>
          /\ ~(~dragSession /\ dragSession')
          /\ (pendingMove' = pendingMove \/ pendingMove' = Null)]_vars

\* C8 (as stated): while a PendingMove is outstanding the grid shows the
\* preview and the confirm controls in the cell (task's room, toDate) and no
\* block of the task in the cell (task's room, fromDate).
C8_AsStated ==
    (GridRendered /\ pendingMove # Null) =>
       \A cell \in Cells :
          /\ ( /\ CellRoom(cell) = Val(pendingMove).task.roomId
               /\ formatDateISO(CellDate(cell)) = Val(pendingMove).toDate )
             => (PendingPreviewAt(cell) /\ ConfirmControlsAt(cell))
          /\ ( /\ CellRoom(cell) = Val(pendingMove).task.roomId
               /\ formatDateISO(CellDate(cell)) = Val(pendingMove).fromDate )
             => ~HasBlock(cell, Val(pendingMove).task.id)

\* every action that changes the store and then re-fetches the task list
AllMutatingOps == MutatingOps \cup {"confirmMove"}

\* the latest of them, once started
LatestMutation == issued # <<>> /\ issued[1].op \in AllMutatingOps

\* the filters the mounted component would send with a fetch of the list
ClientQuery == IF view = "manager" THEN TmQuery ELSE NoQuery

\* the ordering of C9 as a condition on a step: a request of a mutating
\* action in flight keeps loading true, and the step that clears loading
\* after a mutating action leaves no request of it in flight and, when the
\* action ended in one of kinds, leaves the client's list equal to the
\* store's list
C9_Ordering(kinds) ==
    /\ \A i \in 1..Len(net') : net'[i].op \in AllMutatingOps => loading'
    /\ (LatestMutation /\ loading /\ ~loading') =>
          /\ \A k \in 1..Len(net') : net'[k].op \notin AllMutatingOps
          /\ \A k \in 1..Len(issued') : issued'[k].result # "pending"
          /\ issued'[Len(issued')].result \in kinds =>
                \/ tasks' = StoreList(store', issued'[Len(issued')].query)
                \/ tasks' = StoreList(store', ClientQuery')

C10_AsStated == net # <<>> => (loading /\ ~TmControlsEnabled)

\* the requests in flight whose continuation writes the task list
ListFetchesInFlight == {i \in 1..Len(net) : IsTasksGet(net[i])}

\* C11 (as stated): at most one fetch of the task list is in flight at a
\* time, be it the mount's, a filter's or a mutating action's refresh.
C11_AsStated == Cardinality(ListFetchesInFlight) <= 1

\* a step with which the latest operation (the mount or a mutating action)
\* has all its requests completed, one of them failed
OperationEndsFailed ==
    /\ \E k \in 1..Len(issued) : issued[k].result = "pending"
    /\ \A k \in 1..Len(issued') : issued'[k].result # "pending"
    /\ \E k \in 1..Len(issued') : issued'[k].result # "ok"

\* the operations that set loading
BusyOps == AllMutatingOps \cup (IF view = "calendar" THEN {"onMounted"} ELSE {})

\* C12: when an operation ends in a failure (a transport error, a store
\* rejection or a failed refresh), the step that completes it leaves loading
\* false and no PendingMove; and loading is never true without a request of
\* the operation that set it in flight.
C12_FlagsCleared ==
    [][/\ OperationEndsFailed => (~loading' /\ pendingMove' = Null)
       /\ loading' => \E i \in 1..Len(net') : net'[i].op \in BusyOps]_vars

\* a confirm whose PUT succeeded and whose refresh failed has ended: loading
\* is false and nothing is staged
C12_Witness ==
    /\ LatestIsConfirm /\ Len(issued) = 2
    /\ issued[1].result = "ok" /\ issued[2].result = "throw"
    /\ ~loading /\ pendingMove = Null /\ net = <<>>

\* C13: addTask called while roomId, assignedUserId or taskDate is empty
\* sends no request, sets a non-empty error message and leaves loading false
\* and the form data and the task list unchanged.
C13_IncompleteFormRejected ==
    [][(addTask /\ (formData.roomId = "" \/ formData.assignedUserId = ""
                     \/ formData.taskDate = EmptyDate)) =>
          /\ net' = net /\ issued' = issued /\ submitted' = submitted
          /\ error' # ""
          /\ ~loading /\ ~loading'
          /\ formData' = formData /\ tasks' = tasks /\ store' = store]_vars

\* the validation message is displayed for a form that lacks only its date
C13_Witness ==
    /\ view = "manager" /\ error = "Room, assigned user, and task date are required"
    /\ formData.roomId # "" /\ formData.assignedUserId # ""
    /\ formData.taskDate = EmptyDate
    /\ ~loading /\ submitted = 0

\* C14 (as stated): when the initial fetches have all completed and one of
\* them failed, by a transport error or by a non-2xx response, a fetch-failure
\* message is set and loading is false.
C14_AsStated ==
    [][(OperationEndsFailed /\ issued'[1].op = "onMounted") =>
          (error' # "" /\ ~loading')]_vars

\* the requests in flight that belong to a mutating action
OfMutation(n) == {i \in 1..Len(n) : n[i].op \in AllMutatingOps}

\* C15: nothing is retried: the requests of one user action (add, update,
\* delete, start, complete, confirm move) are one POST, PUT or DELETE and,
\* only after that one succeeded, one GET of the task list, whatever the
\* outcome of either; a mutating request is sent only by the step of the
\* user action itself, and at most one request of an action is in flight.
C15_NoRetry ==
    [][/\ LatestMutation' =>
            /\ Len(issued') <= 2
            /\ issued'[1].method \in {"POST", "PUT", "DELETE"}
            /\ Len(issued') = 2 =>
                  (IsTasksGet(issued'[2]) /\ issued'[1].result = "ok")
       /\ Cardinality(OfMutation(net')) <= 1
       /\ (\E i \in OfMutation(net') : net'[i].method # "GET" /\ net'[i].resp = Null
                                         /\ net'[i] \notin {net[k] : k \in 1..Len(net)})
             => (~loading /\ loading' /\ Len(issued') = 1)]_vars

\* an updateTask has ended on a store rejection and nothing of it is in flight
C15_Witness ==
    /\ view = "manager" /\ Len(issued) = 1
    /\ issued[1].op = "updateTask" /\ issued[1].result = "rejected"
    /\ OfMutation(net) = {} /\ ~loading

\* the status a click on Start or Complete asks the store for
StatusAskedBy(op) == IF op = "startTask" THEN "in_progress" ELSE "completed"

\* the request a step has just sent, when it has sent one
LastSent == net'[Len(net')]

\* C16: Start and Complete each send one PUT to /housekeeping-tasks/<id of
\* the task of the row>, whose body holds the status field only (in_progress
\* for Start, completed for Complete) and neither startedAt nor completedAt;
\* the only other request of the action is the GET of its refresh.
C16_StatusOnlyPut ==
    [][/\ \A k \in TmRows :
             (startTask(k) \/ completeTask(k)) =>
                /\ Len(net') = Len(net) + 1
                /\ IsTasksPut(LastSent) /\ LastSent.id = tasks[k].id
                /\ DOMAIN LastSent.body = {"status"}
                /\ LastSent.body.status = StatusAskedBy(LastSent.op)
                /\ startTask(k) <=> LastSent.op = "startTask"
                /\ issued' = <<Sent(LastSent)>>
       /\ \A i \in 1..Len(net') :
             (net'[i].op \in {"startTask", "completeTask"} /\ net'[i].method # "GET") =>
                /\ IsTasksPut(net'[i])
                /\ DOMAIN net'[i].body = {"status"}
                /\ net'[i].body.status = StatusAskedBy(net'[i].op)
       /\ (issued' # <<>> /\ issued'[1].op \in {"startTask", "completeTask"}) =>
             /\ IsTasksPut(issued'[1])
             /\ \A n \in 2..Len(issued') : issued'[n].method = "GET"]_vars

\* the PUT of a Complete has been accepted by the store
C16_Witness ==
    /\ view = "manager" /\ issued # <<>>
    /\ issued[1].op = "completeTask" /\ issued[1].result = "ok"
    /\ \E k \in 1..Len(store) : store[k].id = issued[1].id /\ store[k].status = "completed"

\* the statuses of the schema
TaskStatuses == {"pending", "in_progress", "completed", "cancelled"}

\* C17: Start is offered only in the row of a task displayed as pending and
\* Complete only in the row of a task displayed as in_progress, neither for
\* a completed or cancelled task; a click asks for the next status of
\* pending -> in_progress -> completed.
C17_ButtonsFollowLifecycle ==
    [][/\ \A k \in TmRows :
             /\ startTask(k) =>
                   (tasks[k].status = "pending" /\ LastSent.body.status = "in_progress")
             /\ completeTask(k) =>
                   (tasks[k].status = "in_progress" /\ LastSent.body.status = "completed")
       /\ \A st \in TaskStatuses :
             /\ StartOffered([status |-> st]) <=> st = "pending"
             /\ CompleteOffered([status |-> st]) <=> st = "in_progress"
       /\ \A k \in TmRows :
             tasks[k].status \in {"completed", "cancelled"} =>
                ~StartOffered(tasks[k]) /\ ~CompleteOffered(tasks[k])]_vars

\* a task is displayed as completed, with the row buttons enabled and neither
\* Start nor Complete among them
C17_Witness ==
    /\ TmControlsEnabled
    /\ \E k \in TmRows :
          /\ tasks[k].status = "completed"
          /\ ~StartOffered(tasks[k]) /\ ~CompleteOffered(tasks[k])

\* the positions in the task list of the tasks of a room dated day that pass
\* the status filter
Matching(roomId, day) ==
    { k \in 1..Len(tasks) : /\ tasks[k].roomId = roomId
                            /\ tasks[k].taskDate = day
                            /\ statusFilter \in {"all", tasks[k].status} }

\* s lists the tasks at the positions idx, in the order of the task list
IsSubSeqAt(s, idx) ==
    /\ Len(s) = Cardinality(idx)
    /\ \A j \in 1..Len(s) :
          \E k \in idx : s[j] = tasks[k] /\ Cardinality({m \in idx : m < k}) = j - 1

CellsShowing(id) == { cell \in Cells : HasBlock(cell, id) }

\* C18 as stated: the cell of a room under the column of a calendar day
\* shows exactly the tasks of that room dated that day which pass the status
\* filter, in list order, and no task is shown in two cells.
\* Violated: the column of a local day shows the tasks dated the UTC day of
\* its instant.
C18_AsStated ==
    GridRendered =>
        /\ \A cell \in Cells :
              IsSubSeqAt(TaskBlocks(cell), Matching(CellRoom(cell), getDate(CellDate(cell))))
        /\ \A k \in 1..Len(tasks) : Cardinality(CellsShowing(tasks[k].id)) <= 1

\* what holds in every zone: the cell shows the tasks dated the UTC day of
\* the column's instant, in list order
C18_ByIsoDate ==
    GridRendered =>
        \A cell \in Cells :
            IsSubSeqAt(TaskBlocks(cell), Matching(CellRoom(cell), formatDateISO(CellDate(cell))))

\* a task shown in two cells of one grid
C18_ShownTwice ==
    GridRendered /\ \E k \in 1..Len(tasks) : Cardinality(CellsShowing(tasks[k].id)) > 1

\* C19: the date list has daysToShow entries, between 3 and 30 once the
\* container is measured; the first is the start date and each next one is
\* the same local hour of the next calendar day.
C19_ConsecutiveDays ==
    /\ Len(dates) = daysToShow
    /\ containerWidth # 0 => daysToShow \in MinDays..MaxDays
    /\ dates[1] = startDate
    /\ \A i \in 1..(Len(dates) - 1) :
          /\ getDate(dates[i + 1]) = getDate(dates[i]) + 1
          /\ dates[i + 1].tod = dates[i].tod

\* a list of 30 days from a start the user navigated to, across the day the
\* zone changes its offset
C19_Witness ==
    /\ GridRendered /\ daysToShow = MaxDays
    /\ startDate # Yesterday(now)
    /\ \E i \in 1..(Len(dates) - 1) : UtcOffset(dates[i]) # UtcOffset(dates[i + 1])

Labels(rs) == [k \in 1..Len(rs) |-> rs[k].roomNumber]

\* the rooms shown are those at the positions p[1], p[2], ... of the list
\* fetched, by ascending key, and by ascending position among equal keys
ShownInOrder(p) ==
    /\ \A i \in 1..Len(rooms) : filteredRooms[i] = rooms[p[i]]
    /\ \A i, j \in 1..Len(rooms) :
          i < j => \/ ParseIntOrZero(rooms[p[i]].roomNumber) < ParseIntOrZero(rooms[p[j]].roomNumber)
                   \/ /\ ParseIntOrZero(rooms[p[i]].roomNumber) = ParseIntOrZero(rooms[p[j]].roomNumber)
                      /\ p[i] < p[j]

\* C20: the rooms shown are a permutation of the rooms fetched, ascending
\* by the integer the label starts with (0 when it starts with none), rooms
\* of equal key in fetched order; "10", "2", "9A" are shown as "2", "9A",
\* "10"; no handler that only changes the view writes the list fetched.
C20_RoomOrder ==
    /\ [](rooms # Undefined =>
            /\ Len(filteredRooms) = Len(rooms)
            /\ \E p \in Permutations(1..Len(rooms)) : ShownInOrder(p)
            /\ Labels(rooms) = << <<"1", "0">>, <<"2">>, <<"9", "A">> >>
                  => Labels(filteredRooms) = << <<"2">>, <<"9", "A">>, <<"1", "0">> >>)
    /\ [][rooms' = rooms]_vars

\* a grid the user navigated, of three rooms of which two have the same key,
\* fetched in an order that is not the order shown
C20_Witness ==
    /\ GridRendered /\ Len(rooms) = 3
    /\ startDate # Yesterday(now)
    /\ filteredRooms # rooms
    /\ \E i, j \in 1..3 :
          i # j /\ ParseIntOrZero(rooms[i].roomNumber) = ParseIntOrZero(rooms[j].roomNumber)

\* the container has been measured: onMounted measures it when the grid is
\* rendered, and so does every resize from then on
Measured == GridRendered /\ phase = "mounted"

\* q date columns fit into the width w beside the room column
FitsExactly(w, q) == 100 * q <= w - 120 /\ w - 120 < 100 * (q + 1)

\* C21: the day count of a measured container of width w is
\* floor((w - 120) / 100), raised to 3 and lowered to 30, also for w <= 120
\* and w <= 0.
C21_ClampedFloor ==
    Measured =>
        \E q \in (-MaxFitDays)..(MaxFitDays + 2) :
            /\ FitsExactly(containerWidth, q)
            /\ daysToShow = (IF q < 3 THEN 3 ELSE IF q > 30 THEN 30 ELSE q)

\* a container measured at a negative width
C21_Witness == Measured /\ containerWidth < 0 /\ daysToShow = 3

\* C22: a measurement at a width no smaller than the last one gives a day
\* count no smaller than the last one.
C22_Monotonic ==
    [][(Measured /\ containerWidth <= containerWidth') => daysToShow <= daysToShow']_vars

\* a container measured at a width with room for more than 3 and fewer than
\* 30 columns
C22_Witness == Measured /\ containerWidth > 420 /\ daysToShow \in 4..29

RejectedFormRequest(i) ==
    /\ net[i].op \in {"addTask", "updateTask"} /\ net[i].method # "GET"
    /\ net[i].resp # Null /\ Val(net[i].resp).kind = "rejected"

\* C23: when the rejection of an add or update is delivered, the error is
\* the store's text, or the handler's fallback when the store gave none;
\* the form, the task being edited and the task list are as before; nothing
\* is sent; the busy flag is false.
C23_RejectionKeepsForm ==
    [][\A i \in 1..Len(net) :
          (RejectedFormRequest(i) /\ TmMutationDone(i)) =>
              /\ error' = IF Val(net[i].resp).error # "" THEN Val(net[i].resp).error
                          ELSE IF net[i].op = "addTask" THEN "Failed to add task"
                          ELSE "Failed to update task"
              /\ formData' = formData
              /\ editingTask' = editingTask
              /\ tasks' = tasks
              /\ net' = RemoveAt(net, i)
              /\ loading' = FALSE]_vars

\* the update of a task to the room, date and type of another has been
\* rejected by the store with its own text
C23_Witness ==
    /\ view = "manager" /\ net = <<>> /\ ~loading
    /\ Len(issued) = 1 /\ issued[1].op = "updateTask" /\ issued[1].result = "rejected"
    /\ error = StoreRuleText
    /\ editingTask # Null /\ formData.taskDate # Val(editingTask).taskDate

\* the POST, PUT and DELETE requests in flight
MutationsInFlight == { i \in 1..Len(net) : net[i].method # "GET" }

C28_StagedMoveDates ==
    pendingMove # Null =>
        /\ Val(pendingMove).toDate # Val(pendingMove).fromDate
        /\ Val(pendingMove).fromDate = Val(pendingMove).task.taskDate

\* a move staged from a column other than the first, under a status filter
C28_Witness ==
    /\ pendingMove # Null
    /\ Val(pendingMove).fromDate # formatDateISO(startDate)
    /\ statusFilter # "all"

\* C29: a drop stages the dragged task with its own room, whatever the row
\* of the cell; the preview is shown only in the row of that room, at the
\* target date; the store's rows differ after the PUT of a confirm in
\* taskDate only.
C29_RoomKept ==
    /\ [][\A cell \in Cells :
            (handleDrop(cell) /\ pendingMove' # pendingMove) =>
                Val(pendingMove').task = Val(draggedTask)]_vars
    /\ [](GridRendered =>
            \A cell \in Cells :
                PendingPreviewAt(cell) =>
                    /\ CellRoom(cell) = Val(pendingMove).task.roomId
                    /\ formatDateISO(CellDate(cell)) = Val(pendingMove).toDate)
    /\ [][\A i \in 1..Len(net) :
            (StoreHandle(i) /\ net[i].op = "confirmMove" /\ net[i].method = "PUT") =>
                /\ DOMAIN net[i].body = {"taskDate"}
                /\ Len(store') = Len(store)
                /\ \A k \in 1..Len(store) :
                      \A f \in DOMAIN store[k] \ {"taskDate"} : store'[k][f] = store[k][f]]_vars

\* a confirmed move has changed the store, and the grid shows two room rows
C29_Witness ==
    /\ GridRendered /\ Len(filteredRooms) > 1
    /\ issued # <<>> /\ issued[1].op = "confirmMove" /\ issued[1].result = "ok"
    /\ store # InitialStore(now.day)

StatusRank(st) ==
    CASE st = "pending" -> 1
      [] st = "in_progress" -> 2
      [] OTHER -> 3

\* C25 as stated: while every response is the store's own answer, no step
\* moves the store's status of a task backward.
\* Violated: a list fetched while the task was pending is delivered after
\* the task was completed, its row offers Start again, and the store takes
\* the PUT of in_progress.
C25_AsStated ==
    [][\A k \in 1..Len(store) :
          (faults' = 0 /\ Len(store') = Len(store)) =>
              StatusRank(store'[k].status) >= StatusRank(store[k].status)]_vars

\* C26 as stated: when no request is in flight and every response was the
\* store's own answer, the list shown is the store's answer to the list
\* request issued last, which carried the filters now set.
\* Violated: the list request of onMounted is answered after the one of a
\* filter change and its response replaces the filtered list.
C26_AsStated ==
    (/\ view = "manager" /\ phase = "mounted"
     /\ net = <<>> /\ faults = 0) =>
        tasks = StoreList(store, TmQuery)

====
